---- MODULE Spec2Model ----
(***************************************************************************)
(* State-machine model of extractScreenshots                               *)
(* (src/composables/useHighPerformanceScreenshots.ts).                     *)
(*                                                                         *)
(* One extraction is modelled.  JavaScript runs one task at a time, so     *)
(* every handler is one action.  The container parser, the video decoder,  *)
(* the image encoder and the timer are the environment: they decide when   *)
(* and with which arguments the handlers run.  The parser calls its        *)
(* callbacks synchronously from inside appendBuffer and flush; while it    *)
(* does, the variable parsing is not "idle" and no other task runs.        *)
(*                                                                         *)
(* The record calls is history: how often finish, close and configure ran,*)
(* which reject calls were made, whether the decoder was ever used.        *)
(*                                                                         *)
(* The backend handler of /extract-screenshots (handleExtractScreenshots,  *)
(* Go) is a separate program: the variable handler holds one request, and  *)
(* HandlerSpec runs it.                                                    *)
(*                                                                         *)
(* Times: timestamp_seconds is kept in milliseconds, sample cts in track   *)
(* ticks, frame timestamps in microseconds, as the code converts them.     *)
(* Indices into allSamples and gopRanges are 0-based as in the source.     *)
(***************************************************************************)
EXTENDS Integers, Sequences, FiniteSets, TLC

\* ------------------------------------------------------------------ bounds
MaxEvents == 2
MaxSamples == 3
MaxChunks == 2
MaxScheds == 2
MaxParseErrors == 1
\* how many decode calls may throw in one extraction
MaxThrows == 1
\* how many queued frames the decoder may emit out of order
ReorderWindow == 2
\* how many timestamps one /extract-screenshots request carries
MaxTimestamps == 3
\* how many targets one call of the GOP planner gets
MaxTargets == 3
\* how many events one call of addScreenshotsToEvents gets
MaxCaptures == 3

\* ------------------------------------------------------- input value sets
\* requested timestamps, in milliseconds
TsSet == {0, 150}
\* composition timestamps of samples, in track ticks
CtsSet == {0, 1, 4}
\* track timescales (ticks per second)
TimescaleSet == {20}
\* sample batches the parser hands to onSamples
SampleSet == [cts : CtsSet, is_sync : BOOLEAN]
BatchSet == {<<s>> : s \in SampleSet}

Chars(a, b, c, d) == <<a, b, c, d, ".", "x">>
\* codec strings, as sequences of characters
CodecSet == { Chars("a","v","c","1"), Chars("h","e","v","1"),
              Chars("v","p","0","9"), <<"v","p","8">> }

\* the stsd entry of the full track, as toDesc reads it
TrackSet ==
    { [track |-> FALSE, entry |-> FALSE, box |-> "none", descLen |-> 0, writeThrows |-> FALSE],
      [track |-> TRUE, entry |-> FALSE, box |-> "none", descLen |-> 0, writeThrows |-> FALSE],
      [track |-> TRUE, entry |-> TRUE, box |-> "none", descLen |-> 0, writeThrows |-> FALSE],
      [track |-> TRUE, entry |-> TRUE, box |-> "avcC", descLen |-> 1, writeThrows |-> FALSE],
      [track |-> TRUE, entry |-> TRUE, box |-> "avcC", descLen |-> 0, writeThrows |-> FALSE],
      [track |-> TRUE, entry |-> TRUE, box |-> "hvcC", descLen |-> 1, writeThrows |-> FALSE],
      [track |-> TRUE, entry |-> TRUE, box |-> "hvcC", descLen |-> 1, writeThrows |-> TRUE] }

Titles == <<"a", "b", "c", "d">>

\* two requested timestamps 20 ms apart, both less than 100 ms from the
\* frames at 0 ms and at 50 ms
NearTsSet == {40, 60}
\* the keys the results map can hold
KeySet == TsSet \cup NearTsSet

\* ------------------------------------------------------------- constants
ToleranceUs == 100000
MicrosPerSecond == 1000000
MillisPerSecond == 1000

\* uploadSize, the 10 MiB read window, in units of 5 MiB
UploadSize == 2
\* file sizes of the extraction, in the same units: the last chunk is short
FileSizes == { n * UploadSize - 1 : n \in 1..MaxChunks }
\* every file size up to MaxChunks full chunks, the empty file included
ReaderFileSizes == 0..(MaxChunks * UploadSize)

\* absent entry of the results map (results[key] === undefined)
Undefined == -1
NoTrack == [timescale |-> 0]
\* sharedCanvas before onReady, and its content before the first drawImage
NullCanvas == -2
BlankCanvas == -1

VARIABLES
    events, fileSize,
    isProcessing, progress, error,
    promise, resolved,
    results, pendingFrames, videoTrack, allSamples,
    isFinished, readyFired, fileFullyRead, hasReady,
    timer, decState, decQueue, sharedCanvas, encodes,
    scheds, offset, reading, parsing, started, parseErrors,
    calls, handler, planner, capture, openFrames

vars == << events, fileSize, isProcessing, progress, error, promise, resolved,
           results, pendingFrames, videoTrack, allSamples, isFinished,
           readyFired, fileFullyRead, hasReady, timer, decState, decQueue,
           sharedCanvas, encodes, scheds, offset, reading, parsing, started,
           parseErrors, calls, handler, planner, capture, openFrames >>

\* the program state as one record, so that handlers compose as functions
St == [ events |-> events, fileSize |-> fileSize,
        isProcessing |-> isProcessing, progress |-> progress, error |-> error,
        promise |-> promise, resolved |-> resolved,
        results |-> results, pendingFrames |-> pendingFrames,
        videoTrack |-> videoTrack, allSamples |-> allSamples,
        isFinished |-> isFinished, readyFired |-> readyFired,
        fileFullyRead |-> fileFullyRead, hasReady |-> hasReady,
        timer |-> timer, decState |-> decState, decQueue |-> decQueue,
        sharedCanvas |-> sharedCanvas, encodes |-> encodes,
        scheds |-> scheds, offset |-> offset, reading |-> reading,
        parsing |-> parsing, started |-> started,
        parseErrors |-> parseErrors, calls |-> calls, handler |-> handler,
        planner |-> planner, capture |-> capture, openFrames |-> openFrames ]

Set(n) ==
    /\ events' = n.events /\ fileSize' = n.fileSize
    /\ isProcessing' = n.isProcessing /\ progress' = n.progress
    /\ error' = n.error /\ promise' = n.promise /\ resolved' = n.resolved
    /\ results' = n.results /\ pendingFrames' = n.pendingFrames
    /\ videoTrack' = n.videoTrack /\ allSamples' = n.allSamples
    /\ isFinished' = n.isFinished /\ readyFired' = n.readyFired
    /\ fileFullyRead' = n.fileFullyRead /\ hasReady' = n.hasReady
    /\ timer' = n.timer /\ decState' = n.decState /\ decQueue' = n.decQueue
    /\ sharedCanvas' = n.sharedCanvas /\ encodes' = n.encodes
    /\ scheds' = n.scheds /\ offset' = n.offset /\ reading' = n.reading
    /\ parsing' = n.parsing /\ started' = n.started
    /\ parseErrors' = n.parseErrors /\ calls' = n.calls
    /\ handler' = n.handler
    /\ planner' = n.planner /\ capture' = n.capture
    /\ openFrames' = n.openFrames

Abs(x) == IF x < 0 THEN -x ELSE x

\* ------------------------------------------------------------ GOP planner
\* |samples[i].cts - timestamp_seconds * timescale|, scaled by 1000
SampleDiff(sample, tsMs, timescale) ==
    Abs(sample.cts * MillisPerSecond - tsMs * timescale)

\* variant of NearestScan: a later sample at the same distance wins
RECURSIVE NearestScanLast(_, _, _, _, _, _)
NearestScanLast(samples, i, tsMs, timescale, minDiff, nearest) ==
    IF i >= Len(samples) THEN nearest
    ELSE LET diff == SampleDiff(samples[i + 1], tsMs, timescale) IN
         IF nearest = -1 \/ diff <= minDiff
         THEN NearestScanLast(samples, i + 1, tsMs, timescale, diff, i)
         ELSE NearestScanLast(samples, i + 1, tsMs, timescale, minDiff, nearest)

\* the nearest-sample loop: nearest = -1 stands for minDiff = Infinity
RECURSIVE NearestScan(_, _, _, _, _, _)
NearestScan(samples, i, tsMs, timescale, minDiff, nearest) ==
    IF i >= Len(samples) THEN nearest
    ELSE LET diff == SampleDiff(samples[i + 1], tsMs, timescale) IN
         IF nearest = -1 \/ diff < minDiff
         THEN NearestScan(samples, i + 1, tsMs, timescale, diff, i)
         ELSE NearestScan(samples, i + 1, tsMs, timescale, minDiff, nearest)

NearestSampleIndex(samples, tsMs, timescale) ==
    NearestScan(samples, 0, tsMs, timescale, 0, -1)

\* variant of DecodeStartIndex: the walk back to a key frame is missing
DecodeStartIndexNoWalk(samples, i) == i

\* walk back to the preceding key frame; -1 when there is none
RECURSIVE DecodeStartIndex(_, _)
DecodeStartIndex(samples, i) ==
    IF i >= 0 /\ ~samples[i + 1].is_sync
    THEN DecodeStartIndex(samples, i - 1)
    ELSE i

RECURSIVE BuildRanges(_, _, _, _)
BuildRanges(samples, evs, timescale, eventIdx) ==
    IF eventIdx >= Len(evs) THEN <<>>
    ELSE LET nearest == NearestSampleIndex(samples,
                            evs[eventIdx + 1].timestamp_seconds, timescale)
             start == DecodeStartIndex(samples, nearest)
             rest == BuildRanges(samples, evs, timescale, eventIdx + 1)
         IN IF nearest # -1 /\ start >= 0
            THEN <<[start |-> start, end |-> nearest, eventIndex |-> eventIdx]>> \o rest
            ELSE rest

\* insert r behind every element whose start is <= r.start (stable)
RECURSIVE InsertByStart(_, _)
InsertByStart(sorted, r) ==
    IF sorted = <<>> THEN <<r>>
    ELSE IF Head(sorted).start <= r.start
         THEN <<Head(sorted)>> \o InsertByStart(Tail(sorted), r)
         ELSE <<r>> \o sorted

\* variant of SortByStart: the ranges stay in the order of their events
SortByStartSkipped(ranges) == ranges

RECURSIVE SortByStart(_)
SortByStart(ranges) ==
    IF ranges = <<>> THEN <<>>
    ELSE InsertByStart(SortByStart(SubSeq(ranges, 1, Len(ranges) - 1)),
                       ranges[Len(ranges)])

GopRanges(samples, evs, timescale) ==
    SortByStart(BuildRanges(samples, evs, timescale, 0))

\* one call of the planning part of processAllSamples on its own: the sample
\* table may hold equal and unordered composition timestamps
PlanCtsSet == {0, 2, 4}
PlanTsSet == {0, 50, 150}
PlanSampleSet == [cts : PlanCtsSet, is_sync : BOOLEAN]

PlanTables ==
    UNION { [1..n -> PlanSampleSet] : n \in 1..MaxSamples }

PlanTargets ==
    UNION { { [i \in 1..n |-> [timestamp_seconds |-> f[i], title |-> Titles[i]]]
              : f \in [1..n -> PlanTsSet] } : n \in 1..MaxTargets }

NoPlanner ==
    [pc |-> "none", samples |-> <<>>, evs |-> <<>>, timescale |-> 0,
     nearest |-> <<>>, unsorted |-> <<>>, gopRanges |-> <<>>]

NewPlanner(samples, evs, timescale) ==
    [NoPlanner EXCEPT !.pc = "input", !.samples = samples, !.evs = evs,
                      !.timescale = timescale]

\* the loop over the events: nearest sample, walk back, push
PlanBuild ==
    /\ planner.pc = "input"
    /\ Set([St EXCEPT
              !.planner.nearest =
                  [i \in 1..Len(planner.evs) |->
                      NearestSampleIndex(planner.samples,
                                         planner.evs[i].timestamp_seconds,
                                         planner.timescale)],
              !.planner.unsorted =
                  BuildRanges(planner.samples, planner.evs, planner.timescale, 0),
              !.planner.pc = "built"])

\* gopRanges.sort((a, b) => a.start - b.start)
PlanSort ==
    /\ planner.pc = "built"
    /\ Set([St EXCEPT !.planner.gopRanges = SortByStart(planner.unsorted),
                      !.planner.pc = "sorted"])

\* --------------------------------------------------- useVideoScreenshots
\* the events handed to addScreenshotsToEvents: none has a screenshot yet
CaptureEvents ==
    UNION { { [i \in 1..n |-> [timestamp_seconds |-> f[i], title |-> Titles[i],
                               screenshot |-> Undefined]]
              : f \in [1..n -> TsSet] } : n \in 0..MaxCaptures }

\* what one run of the seeked listener meets: a 2d context and a drawable
\* frame, no 2d context, or a drawImage or toDataURL that throws
SeekedOutcomes == {"ok", "noCtx", "throws"}

\* promises: one per call of captureScreenshot, in call order; listeners and
\* timers: the calls whose seeked listener is registered, whose timeout is
\* armed; frame: the frame the video element shows
NoCapture ==
    [pc |-> "none", events |-> <<>>, elements |-> FALSE, i |-> 0, out |-> <<>>,
     loadingProgress |-> 0, promises |-> <<>>, listeners |-> {}, timers |-> {},
     currentTime |-> 0, seeking |-> FALSE, seekedQueued |-> FALSE, frame |-> 0]

NewCapture(evs, elements) ==
    [NoCapture EXCEPT !.pc = "idle", !.events = evs, !.elements = elements]

\* resolve or reject of the promise of call k: only the first one settles it
Settle(c, k, state, value) ==
    IF c.promises[k].state = "pending"
    THEN [c EXCEPT !.promises[k] = [state |-> state, value |-> value,
                                    calls |-> @.calls + 1]]
    ELSE [c EXCEPT !.promises[k].calls = @ + 1]

\* the promise executor of captureScreenshot for the event at index c.i
captureScreenshot(c) ==
    LET k == Len(c.promises) + 1 IN
    IF ~c.elements
    THEN [c EXCEPT !.promises = Append(@, [state |-> "rejected",
                                           value |-> Undefined, calls |-> 1])]
    ELSE [c EXCEPT !.promises = Append(@, [state |-> "pending",
                                           value |-> Undefined, calls |-> 0]),
                   !.timers = @ \cup {k},
                   !.currentTime = c.events[c.i + 1].timestamp_seconds,
                   !.seeking = TRUE,
                   !.listeners = @ \cup {k}]

\* the seeked listener of call k
onSeeked(c, k, outcome) ==
    LET a == [c EXCEPT !.timers = @ \ {k}] IN
    CASE outcome = "noCtx" -> Settle(a, k, "rejected", Undefined)
      [] outcome = "ok" ->
            Settle([a EXCEPT !.listeners = @ \ {k}], k, "resolved", c.frame)
      [] OTHER ->
            Settle([a EXCEPT !.listeners = @ \ {k}], k, "rejected", Undefined)

\* the seeked event is dispatched to the listeners ks in registration order
RECURSIVE DispatchSeeked(_, _, _)
DispatchSeeked(c, ks, outcomes) ==
    IF ks = {} THEN c
    ELSE LET k == CHOOSE x \in ks : \A y \in ks : x <= y
         IN DispatchSeeked(onSeeked(c, k, outcomes[k]), ks \ {k}, outcomes)

\* the timeout callback of call k
onCaptureTimeout(c, k) ==
    Settle([c EXCEPT !.timers = @ \ {k}, !.listeners = @ \ {k}],
           k, "rejected", Undefined)

\* 10 + Math.round(((i + 1) / events.length) * 90)
LoadingProgress(i, n) == 10 + (2 * (i + 1) * 90 + n) \div (2 * n)

\* variant of AfterAwait: an event whose capture failed is left out
AfterAwaitDropFailed(c) ==
    LET event == c.events[c.i + 1]
        p == c.promises[Len(c.promises)]
    IN [c EXCEPT !.out = IF p.state = "resolved"
                         THEN Append(@, [event EXCEPT !.screenshot = p.value])
                         ELSE @,
                 !.i = @ + 1]

\* the loop body after the awaited capture has settled: push, next index
AfterAwait(c) ==
    LET event == c.events[c.i + 1]
        p == c.promises[Len(c.promises)]
    IN [c EXCEPT !.out = IF p.state = "resolved"
                         THEN Append(@, [event EXCEPT !.screenshot = p.value])
                         ELSE Append(@, event),
                 !.i = @ + 1]

\* the loop of addScreenshotsToEvents from its condition up to the next
\* await of a pending capture, or to the return
RECURSIVE CaptureLoop(_)
CaptureLoop(c) ==
    IF c.i >= Len(c.events) THEN [c EXCEPT !.pc = "returned"]
    ELSE LET a == captureScreenshot(
                      [c EXCEPT !.loadingProgress =
                                    LoadingProgress(c.i, Len(c.events))])
         IN IF a.promises[Len(a.promises)].state = "pending"
            THEN [a EXCEPT !.pc = "await"]
            ELSE CaptureLoop(AfterAwait(a))

\* the continuation of the await, run once the awaited promise has settled
CaptureResume(c) ==
    IF c.pc = "await" /\ c.promises[Len(c.promises)].state # "pending"
    THEN CaptureLoop(AfterAwait(c))
    ELSE c

addScreenshotsToEvents ==
    /\ capture.pc = "idle"
    /\ Set([St EXCEPT !.capture =
                          CaptureLoop([capture EXCEPT !.loadingProgress = 10])])

\* the video element finishes the seek and queues the seeked event
SeekCompletes ==
    /\ capture.seeking
    /\ Set([St EXCEPT !.capture.frame = capture.currentTime,
                      !.capture.seeking = FALSE,
                      !.capture.seekedQueued = TRUE])

\* the seeked event fires
SeekedFires ==
    /\ capture.seekedQueued
    /\ \E outcomes \in [capture.listeners -> SeekedOutcomes] :
         Set([St EXCEPT !.capture =
                CaptureResume(DispatchSeeked([capture EXCEPT !.seekedQueued = FALSE],
                                             capture.listeners, outcomes))])

\* the 10 s timer of a capture fires
CaptureTimeout ==
    /\ \E k \in capture.timers :
         Set([St EXCEPT !.capture = CaptureResume(onCaptureTimeout(capture, k))])

\* --------------------------------------------------------------- finish
Awaiting(sc) == sc.pc \in {"awaitPre", "awaitPost", "awaitRecover"}

\* pending flush promises are rejected when the decoder closes
RejectFlushes(ss) ==
    [k \in 1..Len(ss) |->
        IF Awaiting(ss[k]) /\ ss[k].wake = "none"
        THEN [ss[k] EXCEPT !.wake = "err"] ELSE ss[k]]

\* variant of FinalizedEvents: events without a stored image are left out
FinalizedEventsPresentOnly(s) ==
    SelectSeq([i \in 1..Len(s.events) |->
                  [timestamp_seconds |-> s.events[i].timestamp_seconds,
                   title |-> s.events[i].title,
                   screenshot |-> s.results[s.events[i].timestamp_seconds]]],
              LAMBDA e : e.screenshot # Undefined)

FinalizedEvents(s) ==
    [i \in 1..Len(s.events) |->
        [timestamp_seconds |-> s.events[i].timestamp_seconds,
         title |-> s.events[i].title,
         screenshot |-> s.results[s.events[i].timestamp_seconds]]]

\* resolve() and reject() settle the promise only if it is still pending
Resolve(s, value) ==
    IF s.promise = "pending"
    THEN [s EXCEPT !.promise = "resolved", !.resolved = value]
    ELSE s

Reject(s, why) ==
    [s EXCEPT !.promise = IF @ = "pending" THEN "rejected" ELSE @,
              !.calls.reject = @ \cup {why}]

\* variant of CloseDecoder: finish leaves the decoder open
CloseDecoderSkipped(s) == s

CloseDecoder(s) ==
    IF s.decState # "none" /\ s.decState # "closed"
    THEN [s EXCEPT !.decState = "closed", !.decQueue = <<>>,
                   !.scheds = RejectFlushes(@),
                   !.calls.close = @ + 1]
    ELSE s

\* variant of finish: the isFinished guard is missing
finishNoGuard(s) ==
    LET a == [s EXCEPT !.isFinished = TRUE,
                       !.timer = IF @ = "armed" THEN "cleared" ELSE @,
                       !.calls.finish = @ + 1,
                       !.calls.finishCalls = @ + 1]
        b == CloseDecoder(a)
        c == Resolve(b, FinalizedEvents(b))
    IN [c EXCEPT !.isProcessing = FALSE]

finish(s) ==
    IF s.isFinished THEN [s EXCEPT !.calls.finishCalls = @ + 1]
    ELSE LET a == [s EXCEPT !.isFinished = TRUE,
                            !.timer = IF @ = "armed" THEN "cleared" ELSE @,
                            !.calls.finish = @ + 1,
                            !.calls.finishCalls = @ + 1]
             b == CloseDecoder(a)
             c == Resolve(b, FinalizedEvents(b))
         IN [c EXCEPT !.isProcessing = FALSE]

\* ------------------------------------------------------ processAllSamples
\* variant of Configured: only a missing decoder is ruled out
ConfiguredNotNull(s) == s.decState # "none"

\* videoDecoder?.state === 'configured'
Configured(s) == s.decState = "configured"

NewSched(s) ==
    [pc |-> "loopTop",
     gopRanges |-> GopRanges(s.allSamples, s.events, s.videoTrack.timescale),
     rangeIdx |-> 0, idx |-> 0, lastProcessedIndex |-> -1, needsFlush |-> FALSE,
     wake |-> "none",
     planLen |-> Len(s.allSamples), flushed |-> FALSE, trace |-> <<>>,
     errRanges |-> {}]

DoneSched(s) ==
    [pc |-> "done", gopRanges |-> <<>>, rangeIdx |-> 0, idx |-> 0,
     lastProcessedIndex |-> -1, needsFlush |-> FALSE, wake |-> "none",
     planLen |-> 0, flushed |-> FALSE, trace |-> <<>>, errRanges |-> {}]

\* videoDecoder.flush() on behalf of scheduler k
IssueFlush(s, k) ==
    [s EXCEPT !.decQueue = Append(@, [kind |-> "flush", sched |-> k, ts |-> 0]),
              !.scheds[k].flushed = TRUE,
              !.calls.used = TRUE,
              !.calls.illegal = IF s.decState = "configured" THEN @ ELSE @ + 1]

FrameTimestamp(sample, timescale) ==
    (sample.cts * MicrosPerSecond) \div timescale

\* variant of ChunkType: every chunk is tagged key
ChunkTypeAlwaysKey(sample) == "key"

\* the type of the EncodedVideoChunk built for a sample
ChunkType(sample) == IF sample.is_sync THEN "key" ELSE "delta"

\* videoDecoder.decode(chunk) on behalf of scheduler k
IssueDecode(s, k, i) ==
    LET sc == s.scheds[k]
        sample == s.allSamples[i + 1]
        first == sc.trace = <<>> \/ sc.trace[Len(sc.trace)].rangeIdx # sc.rangeIdx
        type == ChunkType(sample)
        unit == [index |-> i, type |-> type]
        entry == [rangeIdx |-> sc.rangeIdx,
                  start |-> sc.gopRanges[sc.rangeIdx + 1].start,
                  end |-> sc.gopRanges[sc.rangeIdx + 1].end,
                  flushBefore |-> sc.flushed, decoded |-> 1, err |-> FALSE,
                  needsFlush |-> sc.needsFlush, closing |-> FALSE,
                  units |-> <<unit>>]
    IN [s EXCEPT !.decQueue = Append(@, [kind |-> type,
                                         sched |-> k,
                                         ts |-> FrameTimestamp(sample, s.videoTrack.timescale)]),
                 !.scheds[k].flushed = FALSE,
                 !.calls.used = TRUE,
                 !.scheds[k].trace = IF first THEN Append(@, entry)
                                     ELSE [@ EXCEPT ![Len(@)].decoded = @ + 1,
                                                    ![Len(@)].units = Append(@, unit)],
                 !.calls.illegal = IF s.decState = "configured" THEN @ ELSE @ + 1]

\* an error was caught while scheduler k processed its current range
MarkErr(s, k) ==
    LET sc == s.scheds[k]
        a == [s EXCEPT !.scheds[k].errRanges = @ \cup {sc.rangeIdx}]
    IN IF sc.trace # <<>> /\ sc.trace[Len(sc.trace)].rangeIdx = sc.rangeIdx
       THEN [a EXCEPT !.scheds[k].trace[Len(sc.trace)].err = TRUE]
       ELSE a

\* the closing flush of the current range of scheduler k was issued
MarkClosing(s, k) ==
    LET sc == s.scheds[k] IN
    IF sc.trace # <<>> /\ sc.trace[Len(sc.trace)].rangeIdx = sc.rangeIdx
    THEN [s EXCEPT !.scheds[k].trace[Len(sc.trace)].closing = TRUE]
    ELSE s

\* variant of NeedsFlush: any start other than last + 1 counts as a discontinuity
NeedsFlushNotAdjacent(lastProcessedIndex, start) ==
    lastProcessedIndex = -1 \/ start # lastProcessedIndex + 1

NeedsFlush(lastProcessedIndex, start) ==
    lastProcessedIndex = -1 \/ start > lastProcessedIndex + 1

NextRangeHasGapNever(gopRanges, rangeIdx) == FALSE

NextRangeHasGap(gopRanges, rangeIdx) ==
    rangeIdx # Len(gopRanges) - 1
    /\ gopRanges[rangeIdx + 2].start > gopRanges[rangeIdx + 1].end + 1

\* one statement group of the scheduling loop of scheduler k; throwAt is the
\* sample index whose chunk construction or decode call throws (-1: none)
SchedStep(s, k, throwAt) ==
    LET sc == s.scheds[k]
        n == Len(sc.gopRanges)
        range == sc.gopRanges[sc.rangeIdx + 1]
    IN
    CASE sc.pc = "loopTop" ->
            IF sc.rangeIdx >= n \/ s.isFinished
            THEN [finish(s) EXCEPT !.scheds[k].pc = "done"]
            ELSE IF ~s.allSamples[range.start + 1].is_sync
            THEN [s EXCEPT !.scheds[k].rangeIdx = @ + 1]
            ELSE LET nf == NeedsFlush(sc.lastProcessedIndex, range.start)
                     a == [s EXCEPT !.scheds[k].needsFlush = nf]
                 IN IF nf /\ Configured(s)
                    THEN [IssueFlush(a, k) EXCEPT !.scheds[k].pc = "awaitPre"]
                    ELSE [a EXCEPT !.scheds[k].pc = "decode",
                                   !.scheds[k].idx = range.start]
      [] sc.pc = "decode" ->
            IF sc.idx > range.end \/ s.isFinished
            THEN [s EXCEPT !.scheds[k].pc = "afterDecode"]
            ELSE IF sc.idx = throwAt
            THEN [MarkErr(s, k) EXCEPT !.scheds[k].pc = "catch",
                                       !.calls.throws = @ + 1]
            ELSE IF Configured(s)
            THEN [IssueDecode(s, k, sc.idx) EXCEPT !.scheds[k].idx = @ + 1]
            ELSE [s EXCEPT !.scheds[k].idx = @ + 1]
      [] sc.pc = "afterDecode" ->
            LET a == [s EXCEPT !.scheds[k].lastProcessedIndex = range.end]
                isLastRange == sc.rangeIdx = n - 1
            IN IF (isLastRange \/ NextRangeHasGap(sc.gopRanges, sc.rangeIdx))
                  /\ Configured(s)
               THEN [MarkClosing(IssueFlush(a, k), k) EXCEPT !.scheds[k].pc = "awaitPost"]
               ELSE [a EXCEPT !.scheds[k].pc = "loopTop",
                              !.scheds[k].rangeIdx = @ + 1]
      [] sc.pc = "catch" ->
            IF Configured(s)
            THEN [IssueFlush(s, k) EXCEPT !.scheds[k].pc = "awaitRecover"]
            ELSE [s EXCEPT !.scheds[k].lastProcessedIndex = -1,
                           !.scheds[k].pc = "loopTop",
                           !.scheds[k].rangeIdx = @ + 1]
      [] OTHER -> s

\* variant of Wake: a rejected flush before or after a range ends the run
WakeAbortOnError(s, k) ==
    LET sc == s.scheds[k]
        range == sc.gopRanges[sc.rangeIdx + 1]
        a == [s EXCEPT !.scheds[k].wake = "none"]
    IN
    CASE sc.pc = "awaitPre" /\ sc.wake = "ok" ->
            [a EXCEPT !.scheds[k].pc = "decode", !.scheds[k].idx = range.start]
      [] sc.pc = "awaitPost" /\ sc.wake = "ok" ->
            [a EXCEPT !.scheds[k].pc = "loopTop", !.scheds[k].rangeIdx = @ + 1]
      [] sc.pc = "awaitRecover" /\ sc.wake = "ok" ->
            [a EXCEPT !.scheds[k].lastProcessedIndex = -1,
                      !.scheds[k].pc = "loopTop", !.scheds[k].rangeIdx = @ + 1]
      [] sc.pc = "awaitRecover" /\ sc.wake = "err" ->
            [a EXCEPT !.scheds[k].pc = "loopTop", !.scheds[k].rangeIdx = @ + 1]
      [] OTHER ->
            [MarkErr(a, k) EXCEPT !.scheds[k].pc = "done"]

\* variant of Wake: a successful recovery flush leaves lastProcessedIndex
WakeNoReset(s, k) ==
    LET sc == s.scheds[k]
        range == sc.gopRanges[sc.rangeIdx + 1]
        a == [s EXCEPT !.scheds[k].wake = "none"]
    IN
    CASE sc.pc = "awaitPre" /\ sc.wake = "ok" ->
            [a EXCEPT !.scheds[k].pc = "decode", !.scheds[k].idx = range.start]
      [] sc.pc = "awaitPost" /\ sc.wake = "ok" ->
            [a EXCEPT !.scheds[k].pc = "loopTop", !.scheds[k].rangeIdx = @ + 1]
      [] sc.pc = "awaitRecover" ->
            [a EXCEPT !.scheds[k].pc = "loopTop", !.scheds[k].rangeIdx = @ + 1]
      [] OTHER ->
            [MarkErr(a, k) EXCEPT !.scheds[k].pc = "catch"]

\* the continuation of an awaited flush, once its promise has settled
Wake(s, k) ==
    LET sc == s.scheds[k]
        range == sc.gopRanges[sc.rangeIdx + 1]
        a == [s EXCEPT !.scheds[k].wake = "none"]
    IN
    CASE sc.pc = "awaitPre" /\ sc.wake = "ok" ->
            [a EXCEPT !.scheds[k].pc = "decode", !.scheds[k].idx = range.start]
      [] sc.pc = "awaitPost" /\ sc.wake = "ok" ->
            [a EXCEPT !.scheds[k].pc = "loopTop", !.scheds[k].rangeIdx = @ + 1]
      [] sc.pc = "awaitRecover" /\ sc.wake = "ok" ->
            [a EXCEPT !.scheds[k].lastProcessedIndex = -1,
                      !.scheds[k].pc = "loopTop", !.scheds[k].rangeIdx = @ + 1]
      [] sc.pc = "awaitRecover" /\ sc.wake = "err" ->
            [a EXCEPT !.scheds[k].pc = "loopTop", !.scheds[k].rangeIdx = @ + 1]
      [] OTHER ->
            [MarkErr(a, k) EXCEPT !.scheds[k].pc = "catch"]

\* run scheduler k until it awaits a flush or returns
RECURSIVE RunSched(_, _, _)
RunSched(s, k, throwAt) ==
    IF s.scheds[k].pc = "done" \/ Awaiting(s.scheds[k]) THEN s
    ELSE RunSched(SchedStep(s, k, throwAt), k, throwAt)

\* the call processAllSamples(): it runs synchronously up to its first await
processAllSamples(s, throwAt) ==
    IF Len(s.allSamples) = 0
    THEN finish([s EXCEPT !.scheds = Append(@, DoneSched(s))])
    ELSE LET a == [s EXCEPT !.scheds = Append(@, NewSched(s))]
         IN RunSched(a, Len(a.scheds), throwAt)

\* -------------------------------------------------------- codec description
\* toDesc: the length of the description, 0 for undefined
toDesc(track) ==
    IF ~track.track THEN 0
    ELSE IF ~track.entry THEN 0
    ELSE IF track.box \in {"avcC", "hvcC"}
         THEN IF track.writeThrows THEN 0 ELSE track.descLen
         ELSE 0

StartsWith(str, prefix) ==
    Len(str) >= Len(prefix) /\ SubSeq(str, 1, Len(prefix)) = prefix

\* variant of DescriptionRequired: only avc1 is checked
DescriptionRequiredAvcOnly(codec) ==
    StartsWith(codec, <<"a","v","c","1">>)

DescriptionRequired(codec) ==
    \/ StartsWith(codec, <<"a","v","c","1">>)
    \/ StartsWith(codec, <<"h","v","c","1">>)
    \/ StartsWith(codec, <<"h","e","v","1">>)

\* what the ready event did, recorded for the codec description policy: the
\* decision is "expected" when the extraction was rejected exactly for a track
\* without usable description box whose codec starts with avc1, hvc1 or hev1
Mandatory == { <<"a","v","c","1">>, <<"h","v","c","1">>, <<"h","e","v","1">> }

HasDescriptionBox(track) ==
    /\ track.track /\ track.entry /\ track.box # "none"
    /\ ~track.writeThrows /\ track.descLen > 0

ReadyLog(info, outcome) ==
    LET fatal == /\ ~HasDescriptionBox(info.track)
                 /\ Len(info.codec) >= 4
                 /\ <<info.codec[1], info.codec[2], info.codec[3], info.codec[4]>>
                        \in Mandatory
    IN IF fatal <=> (outcome = "rejected") THEN outcome ELSE "unexpected"

\* ------------------------------------------------------ parser callbacks
onSamples(s, batch) == [s EXCEPT !.allSamples = @ \o batch]

\* the parser indexes samples in presentation order
InOrder(samples) ==
    \A i \in 1..(Len(samples) - 1) : samples[i].cts < samples[i + 1].cts

onReady(s, info, batch, throwAt) ==
    LET a == [s EXCEPT !.hasReady = TRUE, !.readyFired = TRUE,
                       !.videoTrack = [timescale |-> info.timescale],
                       !.sharedCanvas = BlankCanvas]
        description == toDesc(info.track)
    IN IF description = 0 /\ DescriptionRequired(info.codec)
       THEN Reject([a EXCEPT !.error = "config",
                             !.calls.readyLog = ReadyLog(info, "rejected")],
                   "config")
       ELSE LET b == [a EXCEPT !.decState = "configured",
                               !.calls.configure = @ + 1,
                               !.calls.readyLog = ReadyLog(info, "configured"),
                               !.started = TRUE]
                c == onSamples(b, batch)
            IN IF c.fileFullyRead THEN processAllSamples(c, throwAt) ELSE c

onError(s, batch, throwAt) ==
    IF s.hasReady /\ Len(s.allSamples) > 0
    THEN processAllSamples(onSamples(s, batch), throwAt)
    ELSE Reject([s EXCEPT !.error = "mp4box"], "mp4box")

\* ------------------------------------------------- decoder output callback
\* variant of Matches: a frame exactly 100 ms away matches too
MatchesInclusive(frameUs, tsMs) ==
    Abs(frameUs - tsMs * (MicrosPerSecond \div MillisPerSecond)) <= ToleranceUs

Matches(frameUs, tsMs) ==
    Abs(frameUs - tsMs * (MicrosPerSecond \div MillisPerSecond)) < ToleranceUs

RECURSIVE MatchEvents(_, _, _)
MatchEvents(s, frameUs, i) ==
    IF i > Len(s.events) THEN s
    ELSE LET key == s.events[i].timestamp_seconds IN
         IF Matches(frameUs, key) /\ s.results[key] = Undefined
            /\ s.sharedCanvas # NullCanvas
         THEN MatchEvents([s EXCEPT !.sharedCanvas = frameUs,
                                    !.encodes = @ \cup {[key |-> key, img |-> frameUs]}],
                          frameUs, i + 1)
         ELSE MatchEvents(s, frameUs, i + 1)

\* variant of CloseFrame: the frame is not closed
CloseFrameSkipped(s) == s

\* frame.close()
CloseFrame(s) == [s EXCEPT !.openFrames = @ - 1]

\* the output callback, called with a new open frame
output(s, frameUs) ==
    LET a == [s EXCEPT !.openFrames = @ + 1] IN
    IF a.isFinished THEN CloseFrame(a)
    ELSE CloseFrame(MatchEvents(a, frameUs, 1))

\* Math.round(((events.length - pendingFrames) / events.length) * 100)
Progress(len, pending) == (200 * (len - pending) + len) \div (2 * len)

\* variant of onloadend: finish is called one stored result too early
onloadendOffByOne(s, e) ==
    IF s.results[e.key] = Undefined
    THEN LET a == [s EXCEPT !.results[e.key] = e.img,
                            !.pendingFrames = @ - 1]
             b == [a EXCEPT !.progress = Progress(Len(s.events), a.pendingFrames)]
         IN IF b.pendingFrames <= 1 THEN finish(b) ELSE b
    ELSE s

\* reader.onloadend of one image encode
onloadend(s, e) ==
    IF s.results[e.key] = Undefined
    THEN LET a == [s EXCEPT !.results[e.key] = e.img,
                            !.pendingFrames = @ - 1]
             b == [a EXCEPT !.progress = Progress(Len(s.events), a.pendingFrames)]
         IN IF b.pendingFrames <= 0 THEN finish(b) ELSE b
    ELSE s

RemoveAt(seq, i) == SubSeq(seq, 1, i - 1) \o SubSeq(seq, i + 1, Len(seq))

\* ------------------------------------- backend: handleExtractScreenshots
\* request timestamps are counted in quarter milliseconds
TicksPerMilli == 4
\* the timestamps a request may carry
StampSet == {0, 3, 5, 8, 12}
\* what ffprobe reports as the duration of the video
DurationSet == {8}
\* the duration the handler assumes when ffprobe fails
UnknownDuration == 999999

TimestampLists == UNION { [1..n -> StampSet] : n \in 0..MaxTimestamps }

\* no request is being served
NoRequest ==
    [pc |-> "none", timestamps |-> <<>>, duration |-> 0,
     validTimestamps |-> <<>>, screenshots |-> <<>>, validIndex |-> 0,
     i |-> 0, failed |-> {}, files |-> {}, deferred |-> <<>>, created |-> {},
     exit |-> "none"]

\* the request body has been decoded: the video is about to be stored
NewRequest(timestamps) == [NoRequest EXCEPT !.pc = "save", !.timestamps = timestamps]

\* the deferred os.Remove calls run, last registered first
RECURSIVE RunDeferred(_)
RunDeferred(h) ==
    IF h.deferred = <<>> THEN h
    ELSE RunDeferred([h EXCEPT !.files = @ \ {h.deferred[Len(h.deferred)]},
                               !.deferred = SubSeq(@, 1, Len(@) - 1)])

\* the handler function is left (return or panic) after the step named exit
Return(h, pc, exit) == RunDeferred([h EXCEPT !.pc = pc, !.exit = exit])

\* what creating, writing and syncing the upload temp file may come to
SaveOutcomes == {"createFail", "copyFail", "syncFail", "ok"}

\* os.CreateTemp, defer os.Remove(tempPath), io.Copy, Sync, Close
SaveUpload ==
    /\ handler.pc = "save"
    /\ \E outcome \in SaveOutcomes :
         IF outcome = "createFail"
         THEN Set([St EXCEPT !.handler = Return(handler, "error", outcome)])
         ELSE LET h == [handler EXCEPT !.files = @ \cup {"upload"},
                                       !.created = @ \cup {"upload"},
                                       !.deferred = Append(@, "upload")]
              IN IF outcome = "ok"
                 THEN Set([St EXCEPT !.handler = [h EXCEPT !.pc = "convert"]])
                 ELSE Set([St EXCEPT !.handler = Return(h, "error", outcome)])

\* what the conversion may come to
ConvertOutcomes == {"createFail", "runFail", "empty", "ok"}

\* variant of convertEntireVideo: a failed conversion leaves its file behind
convertEntireVideoNoCleanup(h, outcome) ==
    IF outcome = "createFail" THEN [h |-> h, err |-> TRUE]
    ELSE [h |-> [h EXCEPT !.files = @ \cup {"converted"},
                          !.created = @ \cup {"converted"}],
          err |-> outcome # "ok"]

\* convertEntireVideo: the handler's files afterwards, and whether it
\* returned an error
convertEntireVideo(h, outcome) ==
    IF outcome = "createFail" THEN [h |-> h, err |-> TRUE]
    ELSE LET a == [h EXCEPT !.files = @ \cup {"converted"},
                            !.created = @ \cup {"converted"}]
         IN IF outcome = "ok" THEN [h |-> a, err |-> FALSE]
            ELSE [h |-> [a EXCEPT !.files = @ \ {"converted"}], err |-> TRUE]

\* the call of convertEntireVideo and the defer of the converted file
ConvertVideo ==
    /\ handler.pc = "convert"
    /\ \E outcome \in ConvertOutcomes :
         LET r == convertEntireVideo(handler, outcome) IN
         Set([St EXCEPT !.handler =
                IF r.err THEN [r.h EXCEPT !.pc = "probe", !.exit = outcome]
                ELSE [r.h EXCEPT !.pc = "probe", !.exit = outcome,
                                 !.deferred = Append(@, "converted")]])

\* the filter loop: the timestamps below the duration, in request order
ValidTimestamps(timestamps, duration) ==
    SelectSeq(timestamps, LAMBDA ts : ts < duration)

\* fmt.Sprintf("%.3f", timestamp): the timestamp rounded to milliseconds
FormatMillis(ts) == (2 * ts + TicksPerMilli) \div (2 * TicksPerMilli)

\* extractFrameDirect: a data URI of the frame ffmpeg finds at the printed
\* position (written as that position, in ticks), or "" and an error
extractFrameDirect(timestamp, ok) ==
    IF ok THEN [screenshot |-> <<FormatMillis(timestamp) * TicksPerMilli>>, err |-> FALSE]
    ELSE [screenshot |-> <<>>, err |-> TRUE]

\* getVideoDuration, the filter loop and make([]string, len(timestamps))
ProbeDuration ==
    /\ handler.pc = "probe"
    /\ \E d \in DurationSet, probeOk \in BOOLEAN :
         LET duration == IF probeOk THEN d ELSE UnknownDuration IN
         Set([St EXCEPT !.handler =
                [handler EXCEPT !.pc = "extract",
                                !.duration = duration,
                                !.validTimestamps =
                                    ValidTimestamps(handler.timestamps, duration),
                                !.screenshots =
                                    [k \in 1..Len(handler.timestamps) |-> <<>>],
                                !.validIndex = 0, !.i = 0]])

\* one pass of the extraction loop for a timestamp at or beyond the duration
SkipTimestamp ==
    /\ handler.pc = "extract" /\ handler.i < Len(handler.timestamps)
    /\ handler.timestamps[handler.i + 1] >= handler.duration
    /\ Set([St EXCEPT !.handler =
               [handler EXCEPT !.screenshots[handler.i + 1] = <<>>,
                               !.i = @ + 1]])

\* variant of ExtractFrame: validIndex advances only after a successful
\* extraction
ExtractFrameLateIncrement ==
    /\ handler.pc = "extract" /\ handler.i < Len(handler.timestamps)
    /\ handler.timestamps[handler.i + 1] < handler.duration
    /\ IF handler.validIndex >= Len(handler.validTimestamps)
       THEN Set([St EXCEPT !.handler = Return(handler, "panic", handler.exit)])
       ELSE \E ok \in BOOLEAN :
              LET r == extractFrameDirect(
                           handler.validTimestamps[handler.validIndex + 1], ok)
              IN IF r.err
                 THEN Set([St EXCEPT !.handler =
                             [handler EXCEPT !.screenshots[handler.i + 1] = <<>>,
                                             !.failed = @ \cup {handler.i + 1},
                                             !.i = @ + 1]])
                 ELSE Set([St EXCEPT !.handler =
                             [handler EXCEPT !.validIndex = @ + 1,
                                             !.screenshots[handler.i + 1] = r.screenshot,
                                             !.i = @ + 1]])

\* one pass of the extraction loop for a timestamp below the duration;
\* indexing validTimestamps out of range panics
ExtractFrame ==
    /\ handler.pc = "extract" /\ handler.i < Len(handler.timestamps)
    /\ handler.timestamps[handler.i + 1] < handler.duration
    /\ IF handler.validIndex >= Len(handler.validTimestamps)
       THEN Set([St EXCEPT !.handler = Return(handler, "panic", handler.exit)])
       ELSE \E ok \in BOOLEAN :
              LET r == extractFrameDirect(
                           handler.validTimestamps[handler.validIndex + 1], ok)
              IN IF r.err
                 THEN Set([St EXCEPT !.handler =
                             [handler EXCEPT !.validIndex = @ + 1,
                                             !.screenshots[handler.i + 1] = <<>>,
                                             !.failed = @ \cup {handler.i + 1},
                                             !.i = @ + 1]])
                 ELSE Set([St EXCEPT !.handler =
                             [handler EXCEPT !.validIndex = @ + 1,
                                             !.screenshots[handler.i + 1] = r.screenshot,
                                             !.i = @ + 1]])

\* the loop is over: the screenshots array is encoded as the response
Respond ==
    /\ handler.pc = "extract" /\ handler.i = Len(handler.timestamps)
    /\ Set([St EXCEPT !.handler = Return(handler, "respond", handler.exit)])

\* ----------------------------------------------------------------- inputs
EventLists ==
    UNION { { [i \in 1..n |-> [timestamp_seconds |-> f[i], title |-> Titles[i]]]
              : f \in [1..n -> TsSet] } : n \in 1..MaxEvents }

\* the state after the promise executor has run, for the given events
InitFile(evs, request, plannerCall, captureCall, sizes) ==
    /\ events = evs
    /\ fileSize \in sizes
    /\ isProcessing = TRUE
    /\ progress = 0
    /\ error = "null"
    /\ promise = "pending"
    /\ resolved = <<>>
    /\ results = [t \in KeySet |-> Undefined]
    /\ pendingFrames = Len(events)
    /\ videoTrack = NoTrack
    /\ allSamples = <<>>
    /\ isFinished = FALSE
    /\ readyFired = FALSE
    /\ fileFullyRead = FALSE
    /\ hasReady = FALSE
    /\ timer = "armed"
    /\ decState = "none"
    /\ decQueue = <<>>
    /\ sharedCanvas = NullCanvas
    /\ encodes = {}
    /\ scheds = <<>>
    /\ offset = 0
    /\ reading = TRUE
    /\ parsing = "idle"
    /\ started = FALSE
    /\ parseErrors = 0
    /\ calls = [close |-> 0, configure |-> 0, illegal |-> 0, finish |-> 0,
                finishCalls |-> 0, used |-> FALSE, reject |-> {}, throws |-> 0,
                readyLog |-> "none", encodeFails |-> 0, chunks |-> <<>>,
                eofFlushes |-> 0, appendThrows |-> 0]
    /\ handler = request
    /\ planner = plannerCall
    /\ capture = captureCall
    /\ openFrames = 0

InitState(evs, request, plannerCall, captureCall) ==
    InitFile(evs, request, plannerCall, captureCall, FileSizes)

\* the extraction alone: no planner call and no capture call on their own
InitWith(evs, request) == InitState(evs, request, NoPlanner, NoCapture)

Init == \E evs \in EventLists : InitWith(evs, NoRequest)

\* ---------------------------------------------------------------- actions
\* the event loop can start a task: no parser call is on the stack and no
\* continuation of a settled flush promise is waiting in the microtask queue
Idle == parsing = "idle" /\ \A k \in 1..Len(scheds) : scheds[k].wake = "none"

InParser == parsing \in {"append", "flush"}

\* the sample whose decode throws in the run that starts now (-1: none)
ThrowSet ==
    IF calls.throws < MaxThrows THEN {-1} \cup (0..(MaxSamples - 1)) ELSE {-1}

\* what a parser flush() called from a handler may deliver to onSamples
FlushBatches == IF started THEN BatchSet \cup {<<>>} ELSE {<<>>}

\* the bounds on what the parser delivers; while the file is still being
\* read, one call of processAllSamples is kept for the end of reading
Bounded(n) ==
    /\ Len(n.scheds) + (IF n.parsing # "idle" \/ n.reading THEN 1 ELSE 0)
          <= MaxScheds
    /\ Len(n.allSamples) <= MaxSamples
    /\ InOrder(n.allSamples)

SamplesBounded(n) ==
    Len(n.allSamples) <= MaxSamples /\ InOrder(n.allSamples)

InfoSet == [codec : CodecSet, timescale : TimescaleSet, track : TrackSet]

\* variant of TimeoutFires: the timer callback does not call finish
TimeoutFiresNoFinish ==
    /\ Idle /\ timer = "armed"
    /\ Set([St EXCEPT !.timer = "fired"])

\* the 30 s timer fires
TimeoutFires ==
    /\ Idle /\ timer = "armed"
    /\ LET a == [St EXCEPT !.timer = "fired"]
       IN Set(IF ~a.isFinished THEN finish(a) ELSE a)

\* reader.onload: the chunk is handed to appendBuffer
\* variant of ChunkEnd: the rest of the file is read as one chunk
ChunkEndWholeFile(off, size) == size

\* Math.min(off + uploadSize, file.size)
ChunkEnd(off, size) == IF off + UploadSize < size THEN off + UploadSize ELSE size

ReaderOnload ==
    /\ Idle /\ reading
    /\ Set([St EXCEPT !.reading = FALSE, !.parsing = "append",
                      !.calls.chunks =
                          Append(@, [fileStart |-> offset,
                                     len |-> ChunkEnd(offset, fileSize) - offset])])

ReaderOnerror ==
    /\ Idle /\ reading
    /\ Set(Reject([St EXCEPT !.reading = FALSE], "read"))

CbReady ==
    /\ InParser /\ ~hasReady
    /\ \E info \in InfoSet, batch \in BatchSet \cup {<<>>}, t \in ThrowSet :
         LET n == onReady(St, info, batch, t) IN Bounded(n) /\ Set(n)

CbSamples ==
    /\ InParser /\ started
    /\ \E batch \in BatchSet :
         LET n == onSamples(St, batch) IN Bounded(n) /\ Set(n)

CbError ==
    /\ InParser /\ parseErrors < MaxParseErrors
    /\ \E batch \in FlushBatches, t \in ThrowSet :
         LET n == onError([St EXCEPT !.parseErrors = @ + 1], batch, t)
         IN Bounded(n) /\ Set(n)

\* appendBuffer returned: the rest of reader.onload up to the parser flush
AppendReturns ==
    /\ parsing = "append"
    /\ LET buffer == calls.chunks[Len(calls.chunks)]
           nextOffset == offset + buffer.len
       IN
       IF nextOffset < fileSize
       THEN Set([St EXCEPT !.offset = nextOffset, !.reading = TRUE,
                           !.parsing = "idle"])
       ELSE Set([St EXCEPT !.offset = nextOffset, !.fileFullyRead = TRUE,
                           !.parsing = "flush",
                           !.calls.eofFlushes = @ + 1])

\* variant of FlushReturns: scheduling starts whether or not ready fired
FlushReturnsUnguarded ==
    /\ parsing = "flush"
    /\ \E t \in ThrowSet :
         Set(processAllSamples([St EXCEPT !.parsing = "idle"], t))

\* variant of FlushReturns: scheduling is not started at the end of the file
FlushReturnsNoStart ==
    /\ parsing = "flush"
    /\ Set([St EXCEPT !.parsing = "idle"])

\* the parser flush at end of file returned
FlushReturns ==
    /\ parsing = "flush"
    /\ \E t \in ThrowSet :
         LET a == [St EXCEPT !.parsing = "idle"]
             n == IF a.readyFired THEN processAllSamples(a, t) ELSE a
         IN Set(n)

\* appendBuffer threw: the catch block of reader.onload
AppendThrows ==
    /\ parsing = "append"
    /\ \E batch \in FlushBatches, t \in ThrowSet :
         LET a == [St EXCEPT !.parsing = "idle", !.calls.appendThrows = @ + 1]
             n == IF a.hasReady
                  THEN processAllSamples(onSamples(a, batch), t)
                  ELSE Reject([a EXCEPT !.error = "parse"], "append")
         IN SamplesBounded(n) /\ Set(n)

\* the decoder emits a frame; frames queued before a flush may be reordered
DecoderOutput ==
    /\ Idle /\ decState = "configured"
    /\ \E i \in 1..Len(decQueue) :
         /\ i <= ReorderWindow
         /\ \A j \in 1..i : decQueue[j].kind # "flush"
         /\ Set(output([St EXCEPT !.decQueue = RemoveAt(@, i)], decQueue[i].ts))

\* every frame queued before a flush was emitted: its promise resolves
FlushDone ==
    /\ Idle /\ decState = "configured"
    /\ decQueue # <<>> /\ Head(decQueue).kind = "flush"
    /\ Set([St EXCEPT !.decQueue = Tail(@),
                      !.scheds[Head(decQueue).sched].wake = "ok"])

\* the decoder fails while it has work: it closes itself
DecoderError ==
    /\ Idle /\ decState = "configured" /\ decQueue # <<>>
    /\ Set([St EXCEPT !.decState = "closed", !.decQueue = <<>>,
                      !.scheds = RejectFlushes(@)])

EncodeDone ==
    /\ Idle
    /\ \E e \in encodes :
         Set(onloadend([St EXCEPT !.encodes = @ \ {e}], e))

\* convertToBlob rejects: nothing is stored
EncodeFail ==
    /\ Idle
    /\ \E e \in encodes :
         Set([St EXCEPT !.encodes = @ \ {e}, !.calls.encodeFails = 1])

\* the continuation of processAllSamples after an awaited flush
SchedResume ==
    /\ parsing = "idle"
    /\ \E k \in 1..Len(scheds), t \in ThrowSet :
         /\ scheds[k].wake # "none"
         /\ Set(RunSched(Wake(St, k), k, t))

Next ==
    \/ TimeoutFires
    \/ ReaderOnload
    \/ ReaderOnerror
    \/ CbReady
    \/ CbSamples
    \/ CbError
    \/ AppendReturns
    \/ FlushReturns
    \/ AppendThrows
    \/ DecoderOutput
    \/ FlushDone
    \/ DecoderError
    \/ EncodeDone
    \/ EncodeFail
    \/ SchedResume

Spec == Init /\ [][Next]_vars


TypeOK ==
    /\ promise \in {"pending", "resolved", "rejected"}
    /\ timer \in {"armed", "fired", "cleared"}
    /\ decState \in {"none", "configured", "closed"}
    /\ parsing \in {"idle", "append", "flush"}
    /\ Len(allSamples) <= MaxSamples
    /\ Len(scheds) <= MaxScheds

\* the extractions in which the parser never fires the ready event; the
\* reader.onload handler runs to its end and a due timer fires
NextNoReady ==
    \/ TimeoutFires
    \/ ReaderOnload
    \/ ReaderOnerror
    \/ CbError
    \/ AppendReturns
    \/ FlushReturns
    \/ AppendThrows

NoReadySpec ==
    /\ Init /\ [][NextNoReady]_vars
    /\ WF_vars(TimeoutFires)
    /\ WF_vars(AppendReturns \/ AppendThrows)
    /\ WF_vars(FlushReturns)

\* reading and parsing the file, up to the start of scheduling: no decoder
\* output and no image encode exists before scheduling has started
NextReading ==
    \/ NextNoReady
    \/ CbReady
    \/ CbSamples

\* the step in which the parser flush at the end of the file returns (the
\* steps of FlushReturns, whatever they start)
FlushReturned == parsing = "flush" /\ parsing' = "idle"

\* every read completes or fails, every parser call comes to its end
ReadySpec ==
    /\ Init /\ [][NextReading]_vars
    /\ WF_vars(ReaderOnload \/ ReaderOnerror)
    /\ WF_vars(AppendReturns)
    /\ WF_parsing(FlushReturned)

\* reading files of every size, the parser at work
ReaderInit ==
    \E evs \in EventLists :
        InitFile(evs, NoRequest, NoPlanner, NoCapture, ReaderFileSizes)

\* no scheduler is waiting to be resumed (SchedResume ran for each of them)
MicrotasksDone == \A k \in 1..Len(scheds) : scheds[k].wake = "none"

\* the reads go on after the promise settled: a scheduler woken by the
\* closed decoder runs before the next read completes
NextReader == NextReading \/ SchedResume

ReaderSpec ==
    /\ ReaderInit /\ [][NextReader]_vars
    /\ WF_vars(ReaderOnload \/ ReaderOnerror)
    /\ WF_vars(AppendReturns)
    /\ WF_parsing(FlushReturned)
    /\ []<>MicrotasksDone

\* the same extraction for two requested timestamps 20 ms apart
NearEvents ==
    <<[timestamp_seconds |-> 40, title |-> Titles[1]],
      [timestamp_seconds |-> 60, title |-> Titles[2]]>>

NearSpec == InitWith(NearEvents, NoRequest) /\ [][Next]_vars

\* the same extraction of a one-chunk file for three targets: with samples at 0, 50 and 200 ms
\* of which only the last is not a sync sample, the plan is the ranges
\* [0, 0], [1, 1] and [1, 2]
RecoveryEvents ==
    <<[timestamp_seconds |-> 0, title |-> Titles[1]],
      [timestamp_seconds |-> 40, title |-> Titles[2]],
      [timestamp_seconds |-> 150, title |-> Titles[1]]>>

RecoveryInit ==
    InitWith(RecoveryEvents, NoRequest) /\ fileSize <= UploadSize

RecoverySpec == RecoveryInit /\ [][Next]_vars

\* one request served by the backend handler
HandlerInit == \E ts \in TimestampLists : InitWith(<<>>, NewRequest(ts))

HandlerNext ==
    \/ SaveUpload
    \/ ConvertVideo
    \/ ProbeDuration
    \/ SkipTimestamp
    \/ ExtractFrame
    \/ Respond

HandlerSpec == HandlerInit /\ [][HandlerNext]_vars

\* one call of addScreenshotsToEvents, with or without loaded elements
CaptureInit ==
    \E evs \in CaptureEvents, elements \in BOOLEAN :
        InitState(<<>>, NoRequest, NoPlanner, NewCapture(evs, elements))

CaptureNext ==
    \/ addScreenshotsToEvents
    \/ SeekCompletes
    \/ SeekedFires
    \/ CaptureTimeout

CaptureSpec == CaptureInit /\ [][CaptureNext]_vars

\* one call of the planner for a sample table and a list of targets
PlannerInit ==
    \E samples \in PlanTables, evs \in PlanTargets, timescale \in TimescaleSet :
        InitState(<<>>, NoRequest, NewPlanner(samples, evs, timescale), NoCapture)

PlannerNext ==
    \/ PlanBuild
    \/ PlanSort

PlannerSpec == PlannerInit /\ [][PlannerNext]_vars

\* ------------------------------------------------------------ properties
EventIdx == 1..Len(events)

Ts(i) == events[i].timestamp_seconds

AllAbsent == \A i \in 1..Len(resolved) : resolved[i].screenshot = Undefined

\* nothing is left to run: no read, no parser call, no timer, no scheduler,
\* no frame and no image encode is outstanding
Quiesced ==
    /\ parsing = "idle" /\ ~reading /\ timer # "armed"
    /\ \A k \in 1..Len(scheds) : scheds[k].pc = "done"
    /\ decQueue = <<>> /\ encodes = {}

\* C1: whenever the promise has resolved, the resolved list has one entry
\* per input event, in the input order, with the event's fields unchanged and
\* a screenshot that is the image stored for its timestamp or undefined.
C1_ResolvedShape ==
    promise = "resolved" =>
        /\ Len(resolved) = Len(events)
        /\ \A i \in EventIdx :
              /\ resolved[i].timestamp_seconds = events[i].timestamp_seconds
              /\ resolved[i].title = events[i].title
              /\ resolved[i].screenshot \in {Undefined, results[Ts(i)]}

C1_Witness ==
    /\ promise = "resolved" /\ Len(resolved) = 2
    /\ resolved[1].screenshot = Undefined
    /\ resolved[2].screenshot # Undefined

\* C2 as stated: once the timer has fired without a ready event, the
\* promise has resolved with every target absent.
C2_Original ==
    (timer = "fired" /\ ~hasReady) => (promise = "resolved" /\ AllAbsent)

\* C2 amended: once the timer has fired without a ready event the promise is
\* settled: resolved with every target absent unless a parse or read error
\* rejected it before; and no extraction stays pending forever.
C2_TimeoutSettles ==
    /\ []((timer = "fired" /\ ~hasReady) =>
             \/ promise = "resolved" /\ AllAbsent /\ Len(resolved) = Len(events)
             \/ promise = "rejected"
                  /\ calls.reject \cap {"mp4box", "append", "read"} # {})
    /\ <>(promise # "pending")

C2_Witness ==
    /\ timer = "fired" /\ ~hasReady /\ fileFullyRead
    /\ promise = "resolved" /\ AllAbsent /\ Len(resolved) = Len(events)

\* C3: after the first call of finish, no step (further calls of finish
\* included) changes the settled promise, its value, isFinished, isProcessing
\* or the number of times finish ran and closed the decoder; a closed decoder
\* stays closed.
C3_FinishIdempotent ==
    [][isFinished =>
          /\ isFinished' /\ promise' = promise /\ resolved' = resolved
          /\ isProcessing' = isProcessing
          /\ calls'.finish = calls.finish /\ calls'.close = calls.close
          /\ (decState = "closed" => decState' = "closed")]_vars

C3_Witness ==
    /\ calls.finishCalls >= 2 /\ calls.finish = 1 /\ calls.close = 1
    /\ promise = "resolved"

\* C4: once the extraction has quiesced, a decoder that was configured is
\* closed, and close was invoked on it at most once.
C4_DecoderClosedOnce ==
    (Quiesced /\ calls.configure > 0) =>
        (decState = "closed" /\ calls.close <= 1)

C5_WitnessTolerated ==
    calls.readyLog = "configured" /\ calls.used

\* the sample table scheduler k planned with
Planned(k) == SubSeq(allSamples, 1, scheds[k].planLen)

HasPlan(k) == scheds[k].planLen > 0

\* target i has a nearest sample in the table scheduler k planned with, and
\* no sample from index 0 up to that one is a sync sample
Unplannable(i, k) ==
    LET nearest == NearestSampleIndex(Planned(k), Ts(i), videoTrack.timescale)
    IN /\ HasPlan(k)
       /\ \A j \in 0..nearest : ~allSamples[j + 1].is_sync

UnplannableTarget(i) ==
    /\ \E k \in 1..Len(scheds) : HasPlan(k)
    /\ \A k \in 1..Len(scheds) : HasPlan(k) => Unplannable(i, k)

\* the frame timestamps of the samples in the ranges scheduler k planned for
\* targets other than i
FramesOfOthers(i, k) ==
    { FrameTimestamp(allSamples[j + 1], videoTrack.timescale) :
        j \in UNION { r.start..r.end :
                        r \in { scheds[k].gopRanges[m] :
                                  m \in { m2 \in 1..Len(scheds[k].gopRanges) :
                                            scheds[k].gopRanges[m2].eventIndex # i - 1 } } } }

CleanPairs(k) ==
    { m \in 1..(Len(scheds[k].trace) - 1) :
        LET r1 == scheds[k].trace[m]
            r2 == scheds[k].trace[m + 1]
        IN /\ r2.rangeIdx = r1.rangeIdx + 1
           /\ ~r1.err
           /\ r1.decoded = r1.end - r1.start + 1 }

C7_WitnessAdjacent ==
    \E k \in 1..Len(scheds) : \E m \in CleanPairs(k) :
        /\ scheds[k].trace[m + 1].start = scheds[k].trace[m].end + 1
        /\ ~scheds[k].trace[m + 1].flushBefore

C7_WitnessGap ==
    \E k \in 1..Len(scheds) : \E m \in CleanPairs(k) :
        /\ scheds[k].trace[m + 1].start > scheds[k].trace[m].end + 1
        /\ scheds[k].trace[m + 1].flushBefore

C8_WithinTolerance ==
    /\ \A t \in TsSet :
          results[t] # Undefined =>
              (results[t] - 1000 * t < 100000 /\ 1000 * t - results[t] < 100000)
    /\ \A i \in 1..Len(resolved) :
          resolved[i].screenshot # Undefined =>
              /\ resolved[i].screenshot - 1000 * Ts(i) < 100000
              /\ 1000 * Ts(i) - resolved[i].screenshot < 100000

C8_Witness ==
    /\ promise = "resolved"
    /\ \E i \in 1..Len(resolved) :
          /\ resolved[i].screenshot # Undefined
          /\ resolved[i].screenshot # 1000 * Ts(i)

C10_OnlyWhenConfigured ==
    /\ calls.illegal = 0
    /\ decQueue # <<>> => decState = "configured"
    /\ calls.used => calls.configure = 1

C10_Witness ==
    /\ isFinished /\ decState = "closed" /\ calls.close = 1
    /\ \E k \in 1..Len(scheds) : Awaiting(scheds[k]) /\ scheds[k].wake = "err"

\* a flush issued on the decoder has not completed yet
PendingFlush == \E j \in 1..Len(decQueue) : decQueue[j].kind = "flush"

\* C11: while a flush issued on the decoder has not completed, no step issues
\* a decode or another flush (the decoder's queue does not grow), configures
\* the decoder or closes it.
C11_Serialized ==
    [][PendingFlush =>
          /\ Len(decQueue') <= Len(decQueue)
          /\ calls'.configure = calls.configure
          /\ calls'.close = calls.close]_vars

\* how many samples of each range a scheduler has fed to the decoder
Fed(sc) == [m \in 1..Len(sc.trace) |-> sc.trace[m].decoded]

\* C12: the step in which the timer fires closes the decoder that exists;
\* after it no step issues a decode or a flush (no scheduler extends its
\* record of fed ranges, the decoder's queue does not grow) and no frame is
\* matched to a target (no image encode is started).
C12_TimeoutStopsScheduling ==
    [][/\ (timer = "armed" /\ timer' = "fired" /\ decState # "none") =>
              (decState' = "closed" /\ isFinished')
       /\ timer = "fired" =>
              /\ Len(decQueue') <= Len(decQueue)
              /\ calls'.used = calls.used
              /\ encodes' \subseteq encodes
              /\ \A k \in 1..Len(scheds) : Fed(scheds'[k]) = Fed(scheds[k])
              /\ \A k \in 1..Len(scheds') : k > Len(scheds) => Fed(scheds'[k]) = <<>>]_vars

C12_Witness ==
    /\ timer = "fired" /\ calls.close = 1 /\ calls.used
    /\ \E k \in 1..Len(scheds) :
          /\ scheds[k].pc = "done"
          /\ scheds[k].rangeIdx < Len(scheds[k].gopRanges)
          /\ scheds[k].trace # <<>>

\* C13: a scheduler stops only when it has visited every planned range or
\* the extraction was finalized before the step; no step of a scheduler
\* rejects the promise; once every scheduler has returned the promise is
\* settled.
C13_ErrorsDoNotAbort ==
    /\ []((scheds # <<>> /\ \A k \in 1..Len(scheds) : scheds[k].pc = "done")
             => (isFinished /\ promise # "pending"))
    /\ [][/\ \A k \in 1..Len(scheds') :
                ((k > Len(scheds) \/ scheds[k].pc # "done")
                     /\ scheds'[k].pc = "done") =>
                    (isFinished \/ scheds'[k].rangeIdx = Len(scheds'[k].gopRanges))
          /\ scheds' # scheds => calls'.reject = calls.reject]_vars

C13_Witness ==
    /\ promise = "resolved" /\ timer # "fired"
    /\ \E i \in 1..Len(resolved) : resolved[i].screenshot # Undefined
    /\ \E k \in 1..Len(scheds) :
          /\ scheds[k].pc = "done"
          /\ \E m \in 1..(Len(scheds[k].trace) - 1) :
                /\ scheds[k].trace[m].err
                /\ scheds[k].trace[m + 1].rangeIdx > scheds[k].trace[m].rangeIdx
                /\ scheds[k].trace[m + 1].flushBefore

\* the step is the catch block of reader.onload
AppendThrew == parsing = "append" /\ parsing' = "idle" /\ offset' = offset

\* the step is a call of mp4boxfile.onError
ErrorReported == parseErrors' = parseErrors + 1

\* C14: on a parse error, reported through onError or thrown by
\* appendBuffer, the samples indexed so far are scheduled and nothing is
\* rejected if at least one sample was indexed; otherwise the extraction is
\* rejected and nothing is scheduled.
C14_SameDecision ==
    [][(AppendThrew \/ ErrorReported) =>
          IF Len(allSamples) > 0
          THEN Len(scheds') = Len(scheds) + 1 /\ calls'.reject = calls.reject
          ELSE Len(scheds') = Len(scheds) /\ calls'.reject # calls.reject]_vars

\* C15: a rejected promise was rejected for a configuration error or for a
\* total parse failure: a parse error reported or thrown with nothing usable
\* parsed, or any other failure while no sample has been indexed.
C15_RejectCauses ==
    promise = "rejected" =>
        \/ calls.reject \cap {"config", "mp4box", "append"} # {}
        \/ Len(allSamples) = 0

\* one call of processAllSamples, made at the end of the file with the whole
\* sample table, whose first sample is a sync sample
PlannedOnce ==
    /\ fileFullyRead /\ Len(scheds) = 1 /\ HasPlan(1)
    /\ scheds[1].planLen = Len(allSamples)
    /\ allSamples[1].is_sync

\* nothing went wrong: no timeout, no parse or read error, no throwing
\* decode, no decoder error, no failed image encode
Undisturbed ==
    /\ timer # "fired" /\ parseErrors = 0 /\ calls.reject = {}
    /\ calls.throws = 0 /\ calls.encodeFails = 0
    /\ ~(decState = "closed" /\ calls.close = 0)

\* the sample nearest to target i is less than 100 ms from it
NearestMatches(i) ==
    LET nearest == NearestSampleIndex(allSamples, Ts(i), videoTrack.timescale)
    IN Matches(FrameTimestamp(allSamples[nearest + 1], videoTrack.timescale), Ts(i))

\* C16: with one target, a sample table whose only sync sample is index 0 at
\* t = 0 and a nearest sample within tolerance, the plan is the one range
\* [0, nearest], all its samples are fed, and, nothing having gone wrong, the
\* target is present in the resolved result.
C16_SingleKeyFrame ==
    ( /\ Len(events) = 1 /\ Ts(1) = 150
      /\ PlannedOnce /\ Undisturbed
      /\ allSamples[1].cts = 0
      /\ \A j \in 2..Len(allSamples) : ~allSamples[j].is_sync
      /\ NearestMatches(1)
      /\ promise = "resolved" ) =>
        /\ scheds[1].gopRanges =
              <<[start |-> 0,
                 end |-> NearestSampleIndex(allSamples, 150, videoTrack.timescale),
                 eventIndex |-> 0]>>
        /\ Len(scheds[1].trace) = 1
        /\ scheds[1].trace[1].decoded = scheds[1].trace[1].end + 1
        /\ resolved[1].screenshot # Undefined

\* C17: two targets 20 ms apart whose nearest samples are within tolerance
\* of both: nothing having gone wrong, both are present in the resolved
\* result with the same image.
C17_SameImage ==
    ( /\ events = NearEvents
      /\ PlannedOnce /\ Undisturbed
      /\ NearestMatches(1) /\ NearestMatches(2)
      /\ promise = "resolved" ) =>
        /\ resolved[1].screenshot # Undefined
        /\ resolved[2].screenshot # Undefined
        /\ resolved[1].screenshot = resolved[2].screenshot

\* C18: an extraction that never reaches ready and has ended has every
\* target absent and has surfaced the failure: the promise is rejected or
\* the error state is set.
C18_FailureSurfaced ==
    (~hasReady /\ promise # "pending") =>
        /\ AllAbsent
        /\ promise = "rejected" \/ error # "null"

\* C19: the decoder leaves the state none only by a configure call and the
\* state configured only for closed (a handler may configure and close it in
\* one go); configure is issued at most once, exactly once when ready was
\* reached without a configuration error, only on a new decoder and only
\* before the extraction is finalized.
C19_ConfigureOnce ==
    /\ []((calls.readyLog = "configured") <=> (calls.configure = 1))
    /\ [][/\ calls'.configure <= 1
          /\ decState' # decState =>
                \/ decState = "none" /\ calls'.configure = calls.configure + 1
                \/ decState = "configured" /\ decState' = "closed"
          /\ calls'.configure > calls.configure =>
                (decState = "none" /\ ~isFinished)]_vars

\* the entries of the response, given which extractions failed
ExpectedEntry(i, position) ==
    IF handler.timestamps[i] >= handler.duration \/ i \in handler.failed
    THEN <<>>
    ELSE <<position>>

\* the first i timestamps that are below the duration
ValidBefore(i) ==
    { j \in 1..i : handler.timestamps[j] < handler.duration }

ExpectedUnits(start, end) ==
    [j \in 1..(end - start + 1) |->
        [index |-> start + j - 1,
         type |-> IF allSamples[start + j].is_sync THEN "key" ELSE "delta"]]

\* scheduler k has stopped feeding the range of its record entry m
RangeLeft(k, m) ==
    \/ scheds[k].rangeIdx > scheds[k].trace[m].rangeIdx
    \/ scheds[k].pc \in {"awaitPost", "done"}

\* entry m of scheduler k's record is a range fed in full without an error
FedClean(k, m) ==
    /\ scheds[k].trace[m].rangeIdx \notin scheds[k].errRanges
    /\ Len(scheds[k].trace[m].units) =
          scheds[k].trace[m].end - scheds[k].trace[m].start + 1

\* C24: a scheduler feeds each range at most once; what it has submitted
\* of a range is always the samples from start on, one by one in ascending
\* order, each tagged key exactly when it is a sync sample, the first one
\* being key; a range that met no error and no finalization and that the
\* scheduler has left was submitted up to end.
C24_RangeFedInOrder ==
    \A k \in 1..Len(scheds) : \A m \in 1..Len(scheds[k].trace) :
        LET e == scheds[k].trace[m]
            expected == ExpectedUnits(e.start, e.end)
        IN /\ Len(e.units) <= Len(expected)
           /\ e.units = SubSeq(expected, 1, Len(e.units))
           /\ e.units[1].type = "key"
           /\ \A m2 \in 1..Len(scheds[k].trace) :
                 m2 # m => scheds[k].trace[m2].rangeIdx # e.rangeIdx
           /\ ( /\ RangeLeft(k, m)
                /\ e.rangeIdx \notin scheds[k].errRanges
                /\ decState = "configured" /\ ~isFinished ) =>
                    e.units = expected

C24_Witness ==
    /\ decState = "configured" /\ ~isFinished
    /\ \E k \in 1..Len(scheds) : \E m \in 1..Len(scheds[k].trace) :
          /\ RangeLeft(k, m) /\ FedClean(k, m)
          /\ Len(scheds[k].trace[m].units) = 3
          /\ scheds[k].trace[m].units[2].type = "delta"

C26_FlushAfterError ==
    \A k \in 1..Len(scheds) : \A m \in 1..Len(scheds[k].trace) :
        (scheds[k].trace[m].rangeIdx - 1) \in scheds[k].errRanges =>
            (scheds[k].trace[m].needsFlush /\ scheds[k].trace[m].flushBefore)

C26_Witness ==
    \E k \in 1..Len(scheds) : \E m \in 2..Len(scheds[k].trace) :
        /\ (scheds[k].trace[m].rangeIdx - 1) \in scheds[k].errRanges
        /\ FedClean(k, m - 1) /\ FedClean(k, m)
        /\ scheds[k].trace[m].start = scheds[k].trace[m - 1].end + 1
        /\ scheds[k].trace[m].needsFlush /\ scheds[k].trace[m].flushBefore

\* C27: the sample table a scheduler planned with is the whole sample
\* table: no sample is indexed after planning.
C27_TableComplete ==
    \A k \in 1..Len(scheds) :
        HasPlan(k) => scheds[k].planLen = Len(allSamples)

\* C28: processAllSamples runs at most once per extraction.
C28_SingleRun == Len(scheds) <= 1

\* C29: processAllSamples is started only after the ready event has fired:
\* whenever a call of it exists the ready flags are set and the video track
\* is known, and whenever it planned the timescale is set.
C29_ReadyBeforeScheduling ==
    /\ scheds # <<>> =>
          /\ hasReady /\ readyFired
          /\ videoTrack # NoTrack /\ calls.readyLog # "none"
    /\ \A k \in 1..Len(scheds) : HasPlan(k) => videoTrack.timescale > 0

C29_Witness ==
    /\ hasReady /\ fileFullyRead /\ parseErrors = 0
    /\ \E k \in 1..Len(scheds) : HasPlan(k) /\ scheds[k].trace # <<>>

\* ready has fired and the decoder was configured
ReadyConfigured == hasReady /\ calls.readyLog = "configured"

\* C30: once ready has fired without a configuration error, a call of
\* processAllSamples is eventually made, unless reading a later chunk fails:
\* this covers ready firing while a chunk before the last is appended, while
\* the last chunk is appended, and during the forced flush after it.
C30_SchedulingStarts ==
    ReadyConfigured ~> (scheds # <<>> \/ "read" \in calls.reject)

\* ready fired during the forced flush: scheduling started inside onReady
C30_Witness ==
    /\ ReadyConfigured /\ parsing = "flush" /\ parseErrors = 0
    /\ Len(scheds) = 1 /\ HasPlan(1)

\* ready fired while the only chunk was being appended: scheduling started
\* at the end of the file
C30_WitnessLastChunk ==
    /\ ReadyConfigured /\ parsing = "idle" /\ fileFullyRead /\ parseErrors = 0
    /\ fileSize <= UploadSize /\ Len(scheds) = 1 /\ HasPlan(1)

\* ready fired in the first of two chunks: scheduling started at the end of
\* the file with samples of both chunks
C30_WitnessEarly ==
    /\ ReadyConfigured /\ parsing = "idle" /\ fileFullyRead /\ parseErrors = 0
    /\ fileSize > UploadSize /\ Len(scheds) = 1 /\ scheds[1].planLen = MaxSamples

\* the distance of sample j (counted from 0) of the planner's table from
\* target i
PlanDiff(i, j) ==
    SampleDiff(planner.samples[j + 1], planner.evs[i].timestamp_seconds,
               planner.timescale)

\* C22: the nearest sample found for a target is an index of the table
\* whose distance |cts - ts * timescale| no sample undercuts, and every
\* sample before it is strictly farther: of equally near samples the lowest
\* index wins.
C22_NearestLowestIndex ==
    planner.pc \in {"built", "sorted"} =>
        \A i \in 1..Len(planner.evs) :
            LET n == planner.nearest[i] IN
            /\ n \in 0..(Len(planner.samples) - 1)
            /\ \A j \in 0..(Len(planner.samples) - 1) :
                  PlanDiff(i, n) <= PlanDiff(i, j)
            /\ \A j \in 0..(n - 1) : PlanDiff(i, n) < PlanDiff(i, j)

C22_Witness ==
    /\ planner.pc = "built"
    /\ \E i \in 1..Len(planner.evs) :
          \E j \in (planner.nearest[i] + 1)..(Len(planner.samples) - 1) :
              /\ PlanDiff(i, j) = PlanDiff(i, planner.nearest[i])
              /\ planner.samples[j + 1].cts
                    # planner.samples[planner.nearest[i] + 1].cts
              /\ planner.nearest[i] > 0

\* C23: every planned range has 0 <= start <= end, its end is the nearest
\* sample of its target and its start is the greatest index <= end that is
\* a sync sample; a target gets a range exactly when such an index exists;
\* sorting keeps the ranges and puts them in non-decreasing start order.
C23_RangesWellFormed ==
    planner.pc = "sorted" =>
        /\ \A m \in 1..Len(planner.gopRanges) :
              LET r == planner.gopRanges[m] IN
              /\ 0 <= r.start /\ r.start <= r.end
              /\ r.end = planner.nearest[r.eventIndex + 1]
              /\ planner.samples[r.start + 1].is_sync
              /\ \A j \in (r.start + 1)..r.end : ~planner.samples[j + 1].is_sync
        /\ \A i \in 1..Len(planner.evs) :
              Cardinality({ m \in 1..Len(planner.gopRanges) :
                              planner.gopRanges[m].eventIndex = i - 1 })
                = IF \E j \in 0..planner.nearest[i] : planner.samples[j + 1].is_sync
                  THEN 1 ELSE 0
        /\ \A m \in 1..(Len(planner.gopRanges) - 1) :
              planner.gopRanges[m].start <= planner.gopRanges[m + 1].start

C23_Witness ==
    /\ planner.pc = "sorted"
    /\ Len(planner.gopRanges) = 3
    /\ planner.gopRanges # planner.unsorted
    /\ \E m \in 1..3 : planner.gopRanges[m].start < planner.gopRanges[m].end

\* what addScreenshotsToEvents pushes for event j, given how the capture
\* made for it settled
CaptureExpected(j) ==
    IF capture.promises[j].state = "resolved"
    THEN [timestamp_seconds |-> capture.events[j].timestamp_seconds,
          title |-> capture.events[j].title,
          screenshot |-> capture.promises[j].value]
    ELSE capture.events[j]

\* C21: the output list grows by one element per event, in the input order:
\* the event with the captured screenshot added, or the event unchanged when
\* its capture failed or timed out; a failed capture does not end the loop,
\* so on return the output has the length of the input and a capture was
\* made for every event; at most one capture is in progress at any time,
\* the one the loop awaits.
C21_OneOutputPerEvent ==
    /\ Len(capture.out) = capture.i
    /\ \A j \in 1..Len(capture.out) :
          /\ capture.promises[j].state # "pending"
          /\ capture.out[j] = CaptureExpected(j)
    /\ capture.pc = "returned" =>
          /\ Len(capture.out) = Len(capture.events)
          /\ Len(capture.promises) = Len(capture.events)
    /\ Cardinality({ k \in 1..Len(capture.promises) :
                       capture.promises[k].state = "pending" }) <= 1
    /\ \A k \in 1..Len(capture.promises) :
          capture.promises[k].state = "pending" =>
              (capture.pc = "await" /\ k = capture.i + 1)

C21_Witness ==
    /\ capture.pc = "returned" /\ Len(capture.out) = 3
    /\ capture.out[1].screenshot # Undefined
    /\ capture.out[2].screenshot = Undefined
    /\ capture.out[3].screenshot # Undefined
    /\ capture.promises[2].state = "rejected"

\* the total length of the chunks
RECURSIVE ChunkSum(_)
ChunkSum(chunks) ==
    IF chunks = <<>> THEN 0
    ELSE chunks[Len(chunks)].len + ChunkSum(SubSeq(chunks, 1, Len(chunks) - 1))

\* C31: each chunk handed to the parser starts at the total length of the
\* chunks before it and is at most one read window long (empty only for an
\* empty file); no read is under way while the parser holds a chunk, and a
\* new read starts where the appended chunks end; the end-of-file flush is
\* issued at most once, and only when the chunks add up to the file size;
\* unless a read fails or appendBuffer throws, the flush is eventually issued
\* and returns.
C31_SequentialChunks ==
    /\ [](/\ \A i \in 1..Len(calls.chunks) :
                /\ calls.chunks[i].fileStart = ChunkSum(SubSeq(calls.chunks, 1, i - 1))
                /\ calls.chunks[i].len <= UploadSize
                /\ calls.chunks[i].len = 0 => fileSize = 0
          /\ ChunkSum(calls.chunks) <= fileSize
          /\ ~(reading /\ parsing # "idle")
          /\ reading => offset = ChunkSum(calls.chunks)
          /\ calls.eofFlushes <= 1
          /\ fileFullyRead <=> calls.eofFlushes = 1
          /\ calls.eofFlushes = 1 =>
                /\ ChunkSum(calls.chunks) = fileSize /\ offset = fileSize
                /\ ~reading)
    /\ <>(\/ calls.eofFlushes = 1 /\ parsing = "idle"
          \/ "read" \in calls.reject
          \/ calls.appendThrows > 0)

C31_Witness ==
    /\ calls.eofFlushes = 1 /\ parsing = "idle"
    /\ fileSize = MaxChunks * UploadSize
    /\ Len(calls.chunks) = MaxChunks
    /\ calls.appendThrows = 0 /\ "read" \notin calls.reject

\* a one-chunk file shorter than the read window
C31_WitnessShort ==
    /\ calls.eofFlushes = 1 /\ parsing = "idle"
    /\ calls.chunks = <<[fileStart |-> 0, len |-> 1]>>

\* the empty file: one empty chunk
C31_WitnessEmpty ==
    /\ calls.eofFlushes = 1 /\ parsing = "idle"
    /\ calls.chunks = <<[fileStart |-> 0, len |-> 0]>>

\* C32: between callbacks no decoded frame is open: the output callback
\* closes the frame it was given exactly once before it returns, whether or
\* not the frame matched a target.
C32_FramesClosed == openFrames = 0

C32_Witness ==
    /\ openFrames = 0 /\ encodes # {}
    /\ \E t \in KeySet : results[t] # Undefined

\* C33: while an image encode started from the shared canvas is pending, no
\* step draws another frame onto the canvas (or resizes it).
C33_CanvasSerialized ==
    [][encodes # {} => sharedCanvas' = sharedCanvas]_vars

\* the targets that have no stored result
Unsatisfied == { i \in EventIdx : results[Ts(i)] = Undefined }

\* C34: the pending countdown is the number of targets without a stored
\* result and is never negative.
C34_CountdownExact ==
    /\ pendingFrames = Cardinality(Unsatisfied)
    /\ pendingFrames >= 0

\* C35: when the promise has resolved and the deadline timer did not fire, no
\* image encode is pending for a target that is absent from the resolved
\* list.
C35_NoEncodeLeftBehind ==
    (promise = "resolved" /\ timer # "fired") =>
        \A e \in encodes : \A i \in 1..Len(resolved) :
            resolved[i].timestamp_seconds = e.key =>
                resolved[i].screenshot # Undefined

\* C36: isProcessing is true while the promise is pending and false in every
\* state after it settled.
C36_ProcessingFlag == isProcessing <=> promise = "pending"

\* C37: once the promise of a capture has settled, its seeked listener is
\* no longer registered, its timer is cleared, and resolve or reject was
\* called once for it.
C37_SettledCleansUp ==
    \A k \in 1..Len(capture.promises) :
        capture.promises[k].state # "pending" =>
            /\ k \notin capture.listeners
            /\ k \notin capture.timers
            /\ capture.promises[k].calls = 1

\* C38: once the handler was left, by a return after a copy or sync error,
\* by its normal completion after a failed or a successful conversion, or by
\* a panic, no file it created exists any more: neither the upload temp file
\* nor the converted video.
C38_TempFilesRemoved ==
    handler.pc \in {"error", "respond", "panic"} =>
        /\ handler.files = {}
        /\ handler.deferred = <<>>

\* normal completion after a successful conversion: both files had existed
C38_Witness ==
    /\ handler.pc = "respond" /\ handler.exit = "ok"
    /\ handler.created = {"upload", "converted"}
    /\ handler.files = {}

\* normal completion after a conversion that failed partway
C38_WitnessConversionFailed ==
    /\ handler.pc = "respond" /\ handler.exit \in {"runFail", "empty"}
    /\ handler.created = {"upload", "converted"}
    /\ handler.files = {}

\* the copy or the sync failed
C38_WitnessSaveFailed ==
    /\ handler.pc = "error" /\ handler.exit \in {"copyFail", "syncFail"}
    /\ handler.created = {"upload"}
    /\ handler.files = {}

====
